---- MODULE Spec2Model ----
(***************************************************************************)
(* Model of equation.py: the validation -> normalisation -> tokenisation   *)
(* -> term transformation -> assembly pipeline of class Equation, and the  *)
(* display reformatting of Equation.canonicalize.                          *)
(*                                                                         *)
(* A Python string is a sequence of one-character strings.  A regular      *)
(* expression group that did not take part in a match (None) is the empty  *)
(* sequence: no group of POLY_TERM can match the empty string.             *)
(***************************************************************************)
EXTENDS Integers, Sequences, FiniteSets

VARIABLES
    raw,                \* the argument of Equation.__init__
    equation,           \* self.equation
    pc,                 \* position inside Equation.__init__
    processed_equation, \* the value returned by _process_equation
    left_hand_side,     \* self.left_hand_side
    right_hand_side,    \* self.right_hand_side
    error,              \* the exception type that left __init__, "" if none
    token,              \* the argument of a direct call of process_term
    term_result,        \* the outcome of that call
    engine_expr         \* the expression the algebra engine returned

vars == <<raw, equation, pc, processed_equation, left_hand_side,
          right_hand_side, error, token, term_result, engine_expr>>

(***************************************************************************)
(* Bounds of the model.                                                    *)
(***************************************************************************)
MaxTokenLen == 4
MaxRawLen == 4
MaxImplicitLen == 5
MaxCoef == 2
MaxExp == 2

(***************************************************************************)
(* Character classes of the regular expressions.                           *)
(***************************************************************************)
Digit == {"0", "1", "2", "3", "4", "5", "6", "7", "8", "9"}

Lower == {"a", "b", "c", "d", "e", "f", "g", "h", "i", "j", "k", "l", "m",
          "n", "o", "p", "q", "r", "s", "t", "u", "v", "w", "x", "y", "z"}

VAR_NAMES == <<"t", "u", "v", "w", "x", "y", "z">>

VarLetters == {VAR_NAMES[i] : i \in 1..Len(VAR_NAMES)}

\* the characters POLY_SPLIT splits on, listed again in _process_equation
Structural == {"+", "-", "(", ")", "[", "]", "{", "}", "="}

\* the character class of POLY_VALID
ValidChars == Lower \cup Digit \cup
              {" ", "=", "-", "+", "*", "^", "(", ")", "[", "]", "{", "}", ".", ","}

(***************************************************************************)
(* Strings.                                                                *)
(***************************************************************************)
StartsWithAt(s, i, sub) ==
    /\ i + Len(sub) - 1 <= Len(s)
    /\ \A k \in 1..Len(sub) : s[i + k - 1] = sub[k]

\* str.count(sub): the number of non-overlapping occurrences, left to right
RECURSIVE CountFrom(_, _, _)
CountFrom(s, i, sub) ==
    IF i > Len(s) THEN 0
    ELSE IF StartsWithAt(s, i, sub) THEN 1 + CountFrom(s, i + Len(sub), sub)
    ELSE CountFrom(s, i + 1, sub)

Count(s, sub) == CountFrom(s, 1, sub)

\* str.replace(old, new): every non-overlapping occurrence, left to right
RECURSIVE ReplaceFrom(_, _, _, _)
ReplaceFrom(s, i, old, new) ==
    IF i > Len(s) THEN << >>
    ELSE IF StartsWithAt(s, i, old) THEN new \o ReplaceFrom(s, i + Len(old), old, new)
    ELSE <<s[i]>> \o ReplaceFrom(s, i + 1, old, new)

Replace(s, old, new) == ReplaceFrom(s, 1, old, new)

\* the first index at or after i whose character is outside class, Len(s)+1 if none
RECURSIVE SpanEnd(_, _, _)
SpanEnd(s, i, class) ==
    IF i <= Len(s) /\ s[i] \in class THEN SpanEnd(s, i + 1, class) ELSE i

Slice(s, from, to) == IF to <= from THEN << >> ELSE SubSeq(s, from, to - 1)

(***************************************************************************)
(* POLY_TERM and ALL_VARS_POLY_TERM, matched at the start of the token as  *)
(* re.match does.  Every part after the one being matched is optional, so  *)
(* the greedy choice of each part is the match re.match reports.           *)
(***************************************************************************)
\* a match of length zero is no match: the index stays where it was
EndOrStay(stay, from, to) == IF to > from THEN to ELSE stay

\* \d+(\.\d*)? once \d+ has matched up to d
FractionEnd(s, d) ==
    IF d <= Len(s) /\ s[d] = "." THEN SpanEnd(s, d + 1, Digit) ELSE d

\* (\d+(\.\d*)?|\.\d+) at index 1, the digits there ending at d: the index
\* after it, 1 when it does not match
NumberEndFrom(s, d) ==
    IF d > 1 THEN FractionEnd(s, d)
    ELSE IF Len(s) >= 1 /\ s[1] = "." THEN EndOrStay(1, 2, SpanEnd(s, 2, Digit))
    ELSE 1

NumberEnd(s) == NumberEndFrom(s, SpanEnd(s, 1, Digit))

\* [-+]? at index j
SignEnd(s, j) == IF j <= Len(s) /\ s[j] \in {"-", "+"} THEN j + 1 ELSE j

\* [-+]?\d+ at index j: the index after it, stay when it does not match
SignedDigitsEnd(s, stay, from) == EndOrStay(stay, from, SpanEnd(s, from, Digit))

\* ([eE][-+]?\d+)? at index i: the index after it, i when it does not match
ScientificEnd(s, i) ==
    IF i <= Len(s) /\ s[i] \in {"e", "E"}
    THEN SignedDigitsEnd(s, i, SignEnd(s, i + 1))
    ELSE i

\* the coefficient group at index 1: the index after it, 1 when it is absent
CoefficientEndFrom(s, n) == IF n > 1 THEN ScientificEnd(s, n) ELSE 1

CoefficientEnd(s) == CoefficientEndFrom(s, NumberEnd(s))

\* (\^)? at index v
MarkerEnd(s, v) == IF v <= Len(s) /\ s[v] = "^" THEN v + 1 ELSE v

\* the groups of the match, named as process_term's docstring names them: the
\* coefficient ends before c, the variables before v, the marker before h,
\* the exponent before x; matched is the index after the whole match
GroupsAt(s, c, v, h, x) ==
    [coefficient    |-> Slice(s, 1, c),
     variables      |-> Slice(s, c, v),
     exponentiation |-> Slice(s, v, h),
     exponent       |-> Slice(s, h, x),
     matched        |-> x]

GroupsFromMarker(s, c, v, h) == GroupsAt(s, c, v, h, SpanEnd(s, h, Digit))

GroupsFromVariables(s, c, v) == GroupsFromMarker(s, c, v, MarkerEnd(s, v))

GroupsFromCoefficient(s, varClass, c) == GroupsFromVariables(s, c, SpanEnd(s, c, varClass))

TermGroups(s, varClass) == GroupsFromCoefficient(s, varClass, CoefficientEnd(s))

POLY_TERM(s) == TermGroups(s, VarLetters)

ALL_VARS_POLY_TERM(s) == TermGroups(s, Lower)

(***************************************************************************)
(* process_term.                                                           *)
(***************************************************************************)
Returned(value) == [kind |-> "returned", value |-> value, error |-> ""]

Raised(exception) == [kind |-> "raised", value |-> << >>, error |-> exception]

Pending == [kind |-> "pending", value |-> << >>, error |-> ""]

\* [var_name for var_name in VAR_NAMES if var_name in segment]
NamesIn(segment) ==
    SelectSeq(VAR_NAMES, LAMBDA name : \E i \in 1..Len(segment) : segment[i] = name)

\* '*'.join(names)
RECURSIVE JoinStar(_)
JoinStar(names) ==
    IF Len(names) = 0 THEN << >>
    ELSE IF Len(names) = 1 THEN <<names[1]>>
    ELSE <<names[1], "*">> \o JoinStar(Tail(names))

\* lines 220-234: the variables group, names being those of VAR_NAMES in it
RenderNames(segment, names) ==
    IF Len(names) = 1 THEN segment
    ELSE IF Len(names) > 1 THEN JoinStar(names)
    ELSE << >>

RenderVariables(segment) ==
    IF Len(segment) = 0 THEN << >> ELSE RenderNames(segment, NamesIn(segment))

\* lines 208-210: '**{}'.format(exponent)
RenderExponentiation(term) ==
    IF term.exponentiation # << >> /\ term.exponent # << >>
    THEN <<"*", "*">> \o term.exponent
    ELSE << >>

\* lines 216-218: '{}*'.format(coefficient)
RenderCoefficient(term) ==
    IF term.coefficient # << >> /\ term.variables # << >>
    THEN term.coefficient \o <<"*">>
    ELSE << >>

\* lines 199-236, term and no_term being the two matches
ProcessMatches(term, no_term) ==
    IF no_term.variables # << >> /\ term.variables = << >>
    THEN Raised("UnexpectedVariableNamesError")
    ELSE IF term.exponentiation # << >> /\ term.exponent = << >>
    THEN Raised("InvalidTermInEquationError")
    ELSE IF term.coefficient # << >> /\ term.variables = << >>
    THEN Returned(term.coefficient)
    ELSE Returned(RenderCoefficient(term) \o RenderVariables(term.variables)
                  \o RenderExponentiation(term))

process_term(tok) == ProcessMatches(POLY_TERM(tok), ALL_VARS_POLY_TERM(tok))

(***************************************************************************)
(* Equation: the steps of __init__ as functions of the string.             *)
(***************************************************************************)
\* re.match(POLY_VALID, s): '$' matches at the end of the string and also
\* just before a newline that ends the string
PolyValidMatches(s) ==
    LET body == IF Len(s) >= 1 /\ s[Len(s)] = "\n" THEN SubSeq(s, 1, Len(s) - 1) ELSE s
    IN /\ Len(body) >= 1
       /\ \A i \in 1..Len(body) : body[i] \in ValidChars

\* _validate_equation: TRUE when it raises InvalidEquationError
validate_equation_raises(s) ==
    \/ ~PolyValidMatches(s)
    \/ Count(s, <<"=">>) > 1
    \/ Count(s, <<"+", "+">>) # 0
    \/ Count(s, <<"-", "-">>) # 0
    \/ Count(s, <<"+", "-">>) # 0
    \/ Count(s, <<"-", "+">>) # 0
    \/ Count(s, <<"^", "^">>) # 0
    \/ Count(s, <<"*", "*", "*">>) # 0

\* _sanitize_equation with its first two replacements in the other order
sanitize_equation_star_first(s) ==
    Replace(Replace(Replace(s, <<"*">>, << >>), <<"*", "*">>, <<"^">>), <<" ">>, << >>)

\* _sanitize_equation
sanitize_equation(s) ==
    Replace(Replace(Replace(s, <<"*", "*">>, <<"^">>), <<"*">>, << >>), <<" ">>, << >>)

\* re.split(POLY_SPLIT, s): the pieces between the structural characters and,
\* the pattern being one capturing group, the structural characters themselves
RECURSIVE SplitFrom(_, _, _)
SplitFrom(s, i, start) ==
    IF i > Len(s) THEN <<Slice(s, start, i)>>
    ELSE IF s[i] \in Structural
    THEN <<Slice(s, start, i), <<s[i]>>>> \o SplitFrom(s, i + 1, i + 1)
    ELSE SplitFrom(s, i + 1, start)

POLY_SPLIT(s) == SplitFrom(s, 1, 1)

\* the loop of _process_equation from its k-th token on
RECURSIVE ProcessTokens(_, _, _), AppendTerm(_, _, _, _)
ProcessTokens(tokens, k, processed) ==
    IF k > Len(tokens) THEN Returned(processed)
    ELSE IF tokens[k] = << >> THEN ProcessTokens(tokens, k + 1, processed)
    ELSE IF Len(tokens[k]) = 1 /\ tokens[k][1] \in Structural
    THEN ProcessTokens(tokens, k + 1, processed \o tokens[k])
    ELSE AppendTerm(tokens, k, processed, process_term(tokens[k]))

AppendTerm(tokens, k, processed, rendered) ==
    IF rendered.kind = "raised" THEN rendered
    ELSE ProcessTokens(tokens, k + 1, processed \o rendered.value)

\* _process_equation
process_equation(s) == ProcessTokens(POLY_SPLIT(s), 1, << >>)

\* str.split('=')
RECURSIVE SplitEqualsFrom(_, _, _)
SplitEqualsFrom(s, i, start) ==
    IF i > Len(s) THEN <<Slice(s, start, i)>>
    ELSE IF s[i] = "="
    THEN <<Slice(s, start, i)>> \o SplitEqualsFrom(s, i + 1, i + 1)
    ELSE SplitEqualsFrom(s, i + 1, start)

SplitEquals(s) == SplitEqualsFrom(s, 1, 1)

\* the outcome of Equation(s): the two sides, or the exception type
Built(lhs, rhs) == [error |-> "", left_hand_side |-> lhs, right_hand_side |-> rhs]

Failed(exception) == [error |-> exception, left_hand_side |-> << >>, right_hand_side |-> << >>]

\* lines 261-262: the unpacking of split('=') into the two sides
Unpack(sides) ==
    IF Len(sides) = 2 THEN Built(sides[1], sides[2]) ELSE Failed("ValueError")

AfterProcess(processed) ==
    IF processed.kind = "raised" THEN Failed(processed.error)
    ELSE Unpack(SplitEquals(processed.value))

EquationInit(s) ==
    IF validate_equation_raises(s) THEN Failed("InvalidEquationError")
    ELSE AfterProcess(process_equation(sanitize_equation(s)))

(***************************************************************************)
(* The algebra engine's side of canonicalize: a monomial, its text in      *)
(* engine syntax, and the reading of a text in engine syntax.              *)
(***************************************************************************)
EngineVars == <<"x", "y", "z">>

EngineVarSet == {EngineVars[i] : i \in 1..Len(EngineVars)}

NoExpr == [defined |-> FALSE, coef |-> 0, exps |-> [v \in EngineVarSet |-> 0]]

Monomials ==
    {[defined |-> TRUE, coef |-> c, exps |-> e] :
        c \in 1..MaxCoef, e \in [EngineVarSet -> 0..MaxExp]}

DigitChars == <<"0", "1", "2", "3", "4", "5", "6", "7", "8", "9">>

DigitValue(ch) == CHOOSE n \in 0..9 : DigitChars[n + 1] = ch

\* the factors of the monomial's text: the coefficient unless it is 1 and a
\* variable follows, then each variable present, with its power when above 1
RECURSIVE EngineFactors(_, _)
EngineFactors(m, k) ==
    IF k > Len(EngineVars) THEN << >>
    ELSE LET v == EngineVars[k] IN
         (IF m.exps[v] = 0 THEN << >>
          ELSE IF m.exps[v] = 1 THEN <<<<v>>>>
          ELSE <<<<v, "*", "*", DigitChars[m.exps[v] + 1]>>>>)
         \o EngineFactors(m, k + 1)

RECURSIVE JoinFactors(_)
JoinFactors(factors) ==
    IF Len(factors) = 0 THEN << >>
    ELSE IF Len(factors) = 1 THEN factors[1]
    ELSE factors[1] \o <<"*">> \o JoinFactors(Tail(factors))

EngineStr(m) ==
    LET fs == EngineFactors(m, 1) IN
    IF m.coef = 1 /\ Len(fs) > 0 THEN JoinFactors(fs)
    ELSE JoinFactors(<<<<DigitChars[m.coef + 1]>>>> \o fs)

\* sympify of a product of one-digit numbers and variables with one-digit
\* powers; NoExpr for any other text
RECURSIVE SympifyFrom(_, _, _)
SympifyFrom(s, i, m) ==
    LET next(j, mm) ==
            IF j > Len(s) THEN mm
            ELSE IF s[j] = "*" /\ j + 1 <= Len(s) THEN SympifyFrom(s, j + 1, mm)
            ELSE NoExpr
    IN IF i > Len(s) THEN NoExpr
       ELSE IF s[i] \in Digit /\ SpanEnd(s, i, Digit) = i + 1
       THEN next(i + 1, [m EXCEPT !.coef = @ * DigitValue(s[i])])
       ELSE IF s[i] \in EngineVarSet
       THEN IF StartsWithAt(s, i + 1, <<"*", "*">>) /\ i + 3 <= Len(s)
               /\ s[i + 3] \in Digit /\ SpanEnd(s, i + 3, Digit) = i + 4
            THEN next(i + 4, [m EXCEPT !.exps[s[i]] = @ + DigitValue(s[i + 3])])
            ELSE next(i + 1, [m EXCEPT !.exps[s[i]] = @ + 1])
       ELSE NoExpr

Sympify(s) ==
    SympifyFrom(s, 1, [defined |-> TRUE, coef |-> 1, exps |-> [v \in EngineVarSet |-> 0]])

\* canonicalize's return value when the engine's simplified difference is m
CanonicalDisplay(m) ==
    Replace(Replace(EngineStr(m) \o <<" ", "=", " ", "0">>, <<"*", "*">>, <<"^">>),
            <<"*">>, << >>)

(***************************************************************************)
(* Inputs.                                                                 *)
(***************************************************************************)
StringsOver(chars, maxLen) == UNION {[1..n -> chars] : n \in 0..maxLen}

TermChars == {"2", "x", "y", "a", "e", "^", ".", ","}

RawChars == {"x", "a", "2", "=", "+", "-", "^", "*", " ", "\n", "X"}

ImplicitChars == {"2", "x", "y", "^", "=", "+", " "}

(***************************************************************************)
(* Direct calls of process_term, as the unit tests make them.              *)
(***************************************************************************)
NoEquation ==
    /\ raw = << >>
    /\ equation = << >>
    /\ pc = "idle"
    /\ processed_equation = << >>
    /\ left_hand_side = << >>
    /\ right_hand_side = << >>
    /\ error = ""

InitTerm ==
    /\ NoEquation
    /\ engine_expr = NoExpr
    /\ token \in StringsOver(TermChars, MaxTokenLen)
    /\ term_result = Pending

ProcessTerm ==
    /\ term_result.kind = "pending"
    /\ term_result' = process_term(token)
    /\ UNCHANGED <<raw, equation, pc, processed_equation, left_hand_side,
                   right_hand_side, error, token, engine_expr>>

NextTerm == ProcessTerm

SpecTerm == InitTerm /\ [][NextTerm]_vars

(***************************************************************************)
(* Equation.__init__, step by step.                                        *)
(***************************************************************************)
NewEquation(s) ==
    /\ raw = s
    /\ equation = s
    /\ pc = "new"
    /\ processed_equation = << >>
    /\ left_hand_side = << >>
    /\ right_hand_side = << >>
    /\ error = ""
    /\ token = << >>
    /\ term_result = Pending

Init ==
    /\ engine_expr = NoExpr
    /\ \E s \in StringsOver(RawChars, MaxRawLen) : NewEquation(s)

ValidateEquation ==
    /\ pc = "new"
    /\ IF validate_equation_raises(equation)
       THEN pc' = "raised" /\ error' = "InvalidEquationError"
       ELSE pc' = "validated" /\ error' = error
    /\ UNCHANGED <<raw, equation, processed_equation, left_hand_side,
                   right_hand_side, token, term_result, engine_expr>>

SanitizeEquation ==
    /\ pc = "validated"
    /\ equation' = sanitize_equation(equation)
    /\ pc' = "sanitized"
    /\ UNCHANGED <<raw, processed_equation, left_hand_side, right_hand_side,
                   error, token, term_result, engine_expr>>

ProcessEquation ==
    /\ pc = "sanitized"
    /\ \E processed \in {process_equation(equation)} :
       IF processed.kind = "raised"
       THEN pc' = "raised" /\ error' = processed.error
            /\ processed_equation' = processed_equation
       ELSE pc' = "processed" /\ error' = error
            /\ processed_equation' = processed.value
    /\ UNCHANGED <<raw, equation, left_hand_side, right_hand_side,
                   token, term_result, engine_expr>>

SplitSides ==
    /\ pc = "processed"
    /\ \E sides \in {SplitEquals(processed_equation)} :
       IF Len(sides) = 2
       THEN pc' = "done" /\ error' = error
            /\ left_hand_side' = sides[1] /\ right_hand_side' = sides[2]
       ELSE pc' = "raised" /\ error' = "ValueError"
            /\ left_hand_side' = left_hand_side
            /\ right_hand_side' = right_hand_side
    /\ UNCHANGED <<raw, equation, processed_equation, token, term_result, engine_expr>>

Next == ValidateEquation \/ SanitizeEquation \/ ProcessEquation \/ SplitSides

Spec == Init /\ [][Next]_vars

\* __init__ has returned or raised
Finished == pc \in {"done", "raised"}

\* what the caller of Equation(raw) observes
Outcome == [error |-> error, left_hand_side |-> left_hand_side,
            right_hand_side |-> right_hand_side]

(***************************************************************************)
(* Inputs written in the implicit spelling (no '*').                       *)
(***************************************************************************)
InitSpelling ==
    /\ engine_expr = NoExpr
    /\ \E s \in StringsOver(ImplicitChars, MaxImplicitLen) : NewEquation(s)

SpecSpelling == InitSpelling /\ [][Next]_vars

(***************************************************************************)
(* canonicalize's display string given back to Equation.                   *)
(***************************************************************************)
InitRoundTrip ==
    /\ NoEquation
    /\ engine_expr \in Monomials
    /\ token = << >>
    /\ term_result = Pending

\* canonicalize returns the display string, and the caller constructs an
\* Equation from it
Canonicalize ==
    /\ pc = "idle"
    /\ engine_expr.defined
    /\ raw' = CanonicalDisplay(engine_expr)
    /\ equation' = raw'
    /\ pc' = "new"
    /\ UNCHANGED <<processed_equation, left_hand_side, right_hand_side, error,
                   token, term_result, engine_expr>>

NextRoundTrip == Canonicalize \/ Next

SpecRoundTrip == InitRoundTrip /\ [][NextRoundTrip]_vars

(***************************************************************************)
(* Properties.                                                             *)
(***************************************************************************)
Contains(s, sub) == \E i \in 1..Len(s) : StartsWithAt(s, i, sub)

CharCount(s, ch) == Cardinality({i \in 1..Len(s) : s[i] = ch})

EndsWith(s, suffix) ==
    Len(suffix) <= Len(s) /\ SubSeq(s, Len(s) - Len(suffix) + 1, Len(s)) = suffix

TermCalled == term_result.kind # "pending"

\* C1: an input that does not hold exactly one '=' fails with
\* InvalidEquationError, never with another failure and never with an Equation.
C1_NotOneEqualsIsInvalidEquation ==
    (Finished /\ CharCount(raw, "=") # 1) => error = "InvalidEquationError"

\* what the Validator is to reject
Offending(s) ==
    \/ \E i \in 1..Len(s) : s[i] \notin ValidChars
    \/ CharCount(s, "=") > 1
    \/ \E bad \in {<<"+", "+">>, <<"-", "-">>, <<"+", "-">>, <<"-", "+">>,
                   <<"^", "^">>, <<"*", "*", "*">>} : Contains(s, bad)

\* C2: an input with a disallowed character (a trailing newline included),
\* more than one '=' or a forbidden operator sequence fails with
\* InvalidEquationError in validation: construction never goes on to
\* normalise or parse it, and no other failure is raised for it.
C2_OffendingInputFailsInValidation ==
    Offending(raw) =>
        /\ pc \in {"new", "raised"}
        /\ pc = "raised" => error = "InvalidEquationError"

\* the run of lowercase letters after the optional coefficient
VariableSegment(tok) == ALL_VARS_POLY_TERM(tok).variables

\* C3: process_term raises UnexpectedVariableNamesError for every token whose
\* variable segment holds a letter outside the alphabet, wherever it falls.
C3_UnknownLetterRaises ==
    (TermCalled /\ \E i \in 1..Len(VariableSegment(token)) :
                       VariableSegment(token)[i] \notin VarLetters)
        => term_result = Raised("UnexpectedVariableNamesError")

MarkerWithoutDigit(tok) ==
    \E i \in 1..Len(tok) :
        tok[i] = "^" /\ (i = Len(tok) \/ tok[i + 1] \notin Digit)

\* C4: a token holding a '^' that no digit follows makes process_term raise
\* InvalidTermInEquationError (or, rule 1 failing first,
\* UnexpectedVariableNamesError), whatever precedes the '^'; it returns nothing.
C4_MarkerWithoutDigitsRaises ==
    (TermCalled /\ MarkerWithoutDigit(token))
        => /\ term_result.kind = "raised"
           /\ term_result.error \in {"InvalidTermInEquationError",
                                     "UnexpectedVariableNamesError"}

\* the part of a rendering from its first to its last variable symbol
VariableProduct(rendering) ==
    LET at == {i \in 1..Len(rendering) : rendering[i] \in VarLetters}
    IN IF at = {} THEN << >>
       ELSE SubSeq(rendering, CHOOSE i \in at : \A j \in at : i <= j,
                              CHOOSE i \in at : \A j \in at : j <= i)

\* C5: when the variable segment holds alphabet letters only, the variable
\* product of the rendering is the distinct symbols present, once each, in the
\* order of VAR_NAMES, joined by '*'.
C5_VariableProductIsCanonical ==
    (/\ term_result.kind = "returned"
     /\ VariableSegment(token) # << >>
     /\ \A i \in 1..Len(VariableSegment(token)) : VariableSegment(token)[i] \in VarLetters)
        => VariableProduct(term_result.value) = JoinStar(NamesIn(VariableSegment(token)))

\* C6: when the token's parse holds both the marker '^' and exponent digits k,
\* process_term returns a rendering that ends with '**' followed by k, with or
\* without a coefficient and with or without variables.
C6_ExponentIsRendered ==
    (/\ TermCalled
     /\ POLY_TERM(token).exponentiation # << >>
     /\ POLY_TERM(token).exponent # << >>)
        => /\ term_result.kind = "returned"
           /\ EndsWith(term_result.value, <<"*", "*">> \o POLY_TERM(token).exponent)

\* C7: a constructed Equation comes from an assembled expression with exactly
\* one '=' and has two non-empty sides.
C7_BothSidesNonEmpty ==
    pc = "done" =>
        /\ CharCount(processed_equation, "=") = 1
        /\ left_hand_side # << >>
        /\ right_hand_side # << >>

\* a '*' belongs between a coefficient and a variable and between two variables
NeedsStar(s, i) ==
    /\ i < Len(s)
    /\ s[i + 1] \in VarLetters
    /\ s[i] \in VarLetters \cup Digit \cup {"."}

\* the explicit spelling of an input written without '*': every '^' becomes
\* '**' and every implicit multiplication gets its '*'
RECURSIVE ExplicitFrom(_, _)
ExplicitFrom(s, i) ==
    IF i > Len(s) THEN << >>
    ELSE (IF s[i] = "^" THEN <<"*", "*">> ELSE <<s[i]>>)
         \o (IF NeedsStar(s, i) THEN <<"*">> ELSE << >>)
         \o ExplicitFrom(s, i + 1)

ExplicitSpelling(s) == ExplicitFrom(s, 1)

\* C8: an input written without '*' and its explicit spelling have the same
\* outcome: the same two sides, or a failure of the same type.
C8_SpellingsTreatedIdentically ==
    (Finished /\ ~Contains(raw, <<"*">>))
        => EquationInit(ExplicitSpelling(raw)) = Outcome

\* C8 witness: an Equation built from an input with a caret power and an
\* implicit multiplication, whose explicit spelling differs in both.
C8_Witness ==
    /\ pc = "done"
    /\ Contains(raw, <<"^">>)
    /\ \E i \in 1..Len(raw) : NeedsStar(raw, i)
    /\ Contains(ExplicitSpelling(raw), <<"*", "*">>)
    /\ left_hand_side # << >>

\* C9: the display string of an engine expression E is read back as a
\* left-hand side that denotes E, with right-hand side '0'.
C9_DisplayReadsBackAsSameExpression ==
    (Finished /\ engine_expr.defined)
        => /\ pc = "done"
           /\ Sympify(left_hand_side) = engine_expr
           /\ right_hand_side = <<"0">>

\* coefficient? variables? ('^' exponent)?, the whole token
InGrammar(tok) ==
    /\ POLY_TERM(tok).matched = Len(tok) + 1
    /\ POLY_TERM(tok).exponentiation # << >> <=> POLY_TERM(tok).exponent # << >>

\* C10: whenever process_term returns a rendering, the whole token matched the
\* grammar: no trailing characters are dropped.
C10_NoSilentTruncation ==
    term_result.kind = "returned" => InGrammar(token)

====
